---- MODULE Spec2Model ----
(***************************************************************************)
(* A model of ratatui_image (src/src/lib.rs): the Image / Region /         *)
(* ImageView data model, the ViewPixels iterator, alpha compositing and    *)
(* the Widget::render fit-and-scale algorithm.                             *)
(*                                                                         *)
(* Machine integers keep their width.  usize is modelled with UsizeBits    *)
(* bits (the arithmetic is the same modulo 2^UsizeBits); u8 and u16 keep   *)
(* their real widths.  An arithmetic overflow panics in a debug build and  *)
(* wraps in a release build: the build is part of the state.               *)
(***************************************************************************)
EXTENDS Integers, Sequences, FiniteSets, TLC

\* ------------------------------------------------------------------ bounds

\* Width of the modelled machine word (usize).
UsizeBits == 5
\* Largest image width/height explored by the configuration and iterator
\* specifications.
MaxDim == 3

\* ------------------------------------------------------- machine integers

UsizeMod == 2 ^ UsizeBits
USIZE_MAX == UsizeMod - 1
U8_MAX == 255
U8Mod == 256
U16Mod == 65536

Builds == {"debug", "release"}

\* a + b on usize: ok is FALSE when the debug build panics on overflow,
\* val is the (wrapped) result.
checked_add(b, x, y) ==
    [ok |-> (x + y <= USIZE_MAX) \/ b = "release", val |-> (x + y) % UsizeMod]

\* a - b on usize, likewise.
checked_sub(b, x, y) ==
    [ok |-> (x >= y) \/ b = "release", val |-> (x - y) % UsizeMod]

\* a * b on usize, likewise.
checked_mul(b, x, y) ==
    [ok |-> (x * y <= USIZE_MAX) \/ b = "release", val |-> (x * y) % UsizeMod]

\* ------------------------------------------------------------------ types

MkPixel(r, g, b, a) == [r |-> r, g |-> g, b |-> b, a |-> a]

\* Pixel::default(): transparent black.
DefaultPixel == MkPixel(0, 0, 0, 0)

MkRegion(x, y, w, h) == [x |-> x, y |-> y, width |-> w, height |-> h]

\* Region::default()
ZeroRegion == MkRegion(0, 0, 0, 0)

MkBg(r, g, b) == [r |-> r, g |-> g, b |-> b]

\* BgColor::default(): black.
DefaultBg == MkBg(0, 0, 0)

Fits == {"Zoom", "Stretch"}

\* Color::Reset
Reset == [kind |-> "Reset"]

\* An image of the given size painted (with_size, then pixel_mut) so that
\* the pixel at buffer index i is recognisable: its channels encode i.
\* Every pixel is opaque, or (mixed) every other one is half transparent.
\* pixels is the row-major buffer, indexed from 0.
PaintedImage(w, h, mixed) ==
    [width |-> w, height |-> h,
     pixels |-> [i \in 0 .. (w * h - 1) |->
                   MkPixel(i + 1, 100 + i, 250 - i,
                           IF mixed /\ i % 2 = 1 THEN 128 ELSE U8_MAX)]]

\* Image::pixel: None outside the image, else the pixel at y*width + x.
image_pixel(img, x, y) ==
    IF x >= img.width \/ y >= img.height
    THEN [some |-> FALSE, idx |-> -1]
    ELSE [some |-> TRUE, idx |-> (y * img.width) + x]

\* ------------------------------------------------------------ compositing

\* apply_alpha with the intermediates left in u8 (the casts to u16 dropped).
apply_alpha_in_u8(val, bgv, alpha) ==
    LET p1 == val * alpha
        p2 == bgv * (U8_MAX - alpha)
        s  == (p1 % U8Mod) + (p2 % U8Mod)
    IN  [ok  |-> p1 < U8Mod /\ p2 < U8Mod /\ s < U8Mod,
         val |-> ((s % U8Mod) \div U8_MAX) % U8Mod]

\* apply_alpha dividing by 256 (a shift) instead of 255.
apply_alpha_by_shift(val, bgv, alpha) ==
    LET p1 == val * alpha
        p2 == bgv * (U8_MAX - alpha)
        s  == (p1 % U16Mod) + (p2 % U16Mod)
    IN  [ok  |-> p1 < U16Mod /\ p2 < U16Mod /\ s < U16Mod,
         val |-> ((s % U16Mod) \div U8Mod) % U8Mod]

\* apply_alpha: ((val as u16 * alpha as u16) + (bg as u16 * (255 - alpha)
\* as u16)) / 255) as u8.  Each u16 operation is taken modulo 2^16; ok is
\* FALSE when one of them overflows (a panic in a debug build), val is the
\* byte returned otherwise, and by a release build in any case.
apply_alpha(val, bgv, alpha) ==
    LET p1 == val * alpha
        p2 == bgv * (U8_MAX - alpha)
        s  == (p1 % U16Mod) + (p2 % U16Mod)
    IN  [ok  |-> p1 < U16Mod /\ p2 < U16Mod /\ s < U16Mod,
         val |-> ((s % U16Mod) \div U8_MAX) % U8Mod]

\* Pixel::on: Color::Rgb of the three channels blended with the pixel's
\* alpha.
on(pix, bgc) ==
    LET r == apply_alpha(pix.r, bgc.r, pix.a)
        g == apply_alpha(pix.g, bgc.g, pix.a)
        b == apply_alpha(pix.b, bgc.b, pix.a)
    IN  [kind |-> "Rgb", ok |-> r.ok /\ g.ok /\ b.ok,
         r |-> r.val, g |-> g.val, b |-> b.val]

\* ------------------------------------------------------------------- f32

\* An f32 that render can produce: a non-negative finite value m * 2^e with
\* a 24-bit significand (2^23 <= m < 2^24, or m = 0), +infinity, or NaN.
\* Operations round to nearest, ties to even, as IEEE 754 does.
F32Prec == 24
F32Top == 2 ^ F32Prec
F32Low == 2 ^ (F32Prec - 1)

F32Zero == [k |-> "fin", m |-> 0, e |-> 0]
F32Inf == [k |-> "inf", m |-> 0, e |-> 0]
F32NaN == [k |-> "nan", m |-> 0, e |-> 0]

RECURSIVE F32Normalize(_, _)
\* m * 2^e with 0 < m < 2^24, its significand shifted up to 24 bits.
F32Normalize(m, e) ==
    IF m >= F32Low THEN [k |-> "fin", m |-> m, e |-> e]
    ELSE F32Normalize(2 * m, e - 1)

RECURSIVE F32ExcessBits(_)
\* How many bits m has beyond 24.
F32ExcessBits(m) == IF m < F32Top THEN 0 ELSE 1 + F32ExcessBits(m \div 2)

\* m * 2^e with m >= 2^23 of any length, rounded to 24 bits.
F32Round(m, e) ==
    LET s    == F32ExcessBits(m)
        unit == 2 ^ s
        q    == m \div unit
        r    == m % unit
        up   == s > 0 /\ (2 * r > unit \/ (2 * r = unit /\ q % 2 = 1))
        q1   == IF up THEN q + 1 ELSE q
    IN  IF q1 = F32Top THEN [k |-> "fin", m |-> F32Low, e |-> e + s + 1]
        ELSE [k |-> "fin", m |-> q1, e |-> e + s]

\* n as f32, for an integer 0 <= n < 2^24 (exact).
F32FromInt(n) == IF n = 0 THEN F32Zero ELSE F32Normalize(n, 0)

RECURSIVE F32LongDiv(_, _, _, _)
\* bits more quotient bits of rem / d (rem < d), appended to acc:
\* <<quotient, remainder>>.
F32LongDiv(rem, d, bits, acc) ==
    IF bits = 0 THEN <<acc, rem>>
    ELSE IF 2 * rem >= d THEN F32LongDiv(2 * rem - d, d, bits - 1, 2 * acc + 1)
    ELSE F32LongDiv(2 * rem, d, bits - 1, 2 * acc)

\* a / b
F32Div(a, b) ==
    IF a.k = "nan" \/ b.k = "nan" THEN F32NaN
    ELSE IF a.k = "inf" THEN (IF b.k = "inf" THEN F32NaN ELSE F32Inf)
    ELSE IF b.k = "inf" THEN F32Zero
    ELSE IF b.m = 0 THEN (IF a.m = 0 THEN F32NaN ELSE F32Inf)
    ELSE IF a.m = 0 THEN F32Zero
    ELSE LET big == a.m >= b.m
             qr  == IF big THEN F32LongDiv(a.m - b.m, b.m, F32Prec - 1, 1)
                    ELSE F32LongDiv(a.m, b.m, F32Prec, 0)
             q   == qr[1]
             r   == qr[2]
             e   == a.e - b.e - (IF big THEN F32Prec - 1 ELSE F32Prec)
             up  == 2 * r > b.m \/ (2 * r = b.m /\ q % 2 = 1)
         IN  IF ~up THEN [k |-> "fin", m |-> q, e |-> e]
             ELSE IF q + 1 = F32Top THEN [k |-> "fin", m |-> F32Low, e |-> e + 1]
             ELSE [k |-> "fin", m |-> q + 1, e |-> e]

\* (n as f32) * z, for an integer 0 <= n <= usize::MAX of the model.
F32MulInt(n, z) ==
    IF z.k = "nan" THEN F32NaN
    ELSE IF z.k = "inf" THEN (IF n = 0 THEN F32NaN ELSE F32Inf)
    ELSE IF n = 0 \/ z.m = 0 THEN F32Zero
    ELSE F32Round(n * z.m, z.e)

\* a < b
F32Lt(a, b) ==
    IF a.k = "nan" \/ b.k = "nan" THEN FALSE
    ELSE IF a.k = "inf" THEN FALSE
    ELSE IF b.k = "inf" THEN TRUE
    ELSE IF b.m = 0 THEN FALSE
    ELSE IF a.m = 0 THEN TRUE
    ELSE a.e < b.e \/ (a.e = b.e /\ a.m < b.m)

\* a as usize: truncation toward zero, saturating; NaN is 0.
F32ToUsize(a) ==
    IF a.k = "nan" THEN 0
    ELSE IF a.k = "inf" THEN USIZE_MAX
    ELSE IF a.m = 0 THEN 0
    ELSE IF a.e >= 0 THEN USIZE_MAX
    ELSE IF 0 - a.e >= F32Prec THEN 0
    ELSE LET v == a.m \div (2 ^ (0 - a.e))
         IN  IF v > USIZE_MAX THEN USIZE_MAX ELSE v

\* ------------------------------------------------------------------ state

VARIABLES
    build,      \* "debug" or "release": what an arithmetic overflow does
    image,      \* the borrowed Image: [width, height, pixels]
    fit,        \* ImageView.fit
    region,     \* ImageView.region
    bg,         \* ImageView.bg
    panicked,   \* "none", or why the last operation aborted: "overflow", "index"
    got,        \* the result of the last ImageView::pixel call
    cur,        \* the ViewPixels cursor
    calls,      \* next() calls made on the cursor
    nextRes,    \* what the last next() call returned: "some" / "none" ("fresh": not called)
    yielded,    \* buffer indices the cursor has yielded, in order
    firstRun,   \* what the previous cursor over the same view region had yielded
    area,       \* render: the target Rect [x, y, width, height]
    buf,        \* render: the cell buffer, (column, row) -> cell
    written,    \* render: the cells render addressed through get_mut
    geom,       \* render: the zoom ratios and offsets the scaled path used
    phase,      \* "config" / "iter" / "ready" / "rendered" / "input" / "blended"
    requested,  \* the Region last requested of set_region, where it is recorded
    chan,       \* compositing: the inputs [val, bg, alpha]
    blended,    \* compositing: apply_alpha's result for every alpha
    colour      \* compositing: the Color Pixel::on returned

vars == <<build, image, fit, region, bg, panicked, got, cur, calls, nextRes,
          yielded, firstRun, area, buf, written, geom, phase, requested, chan, blended, colour>>

viewVars == <<fit, region, bg>>
iterVars == <<cur, calls, nextRes, yielded, firstRun>>
renderVars == <<area, buf, written, geom>>
alphaVars == <<requested, chan, blended, colour>>

\* ------------------------------------------------------ ImageView: config

\* ImageView::new: the full image, Fit::Zoom, black background.
new(img) ==
    [fit |-> "Zoom", region |-> MkRegion(0, 0, img.width, img.height), bg |-> DefaultBg]

\* set_region with the collapse test written >= instead of >.
set_region_collapsing_on_boundary(b, img, req) ==
    IF req.x >= img.width \/ req.y >= img.height
    THEN [ok |-> TRUE, region |-> [x |-> 0, y |-> 0, width |-> 0, height |-> 0]]
    ELSE LET sx == checked_add(b, req.x, req.width)
             sy == checked_add(b, req.y, req.height)
             w  == IF sx.val > img.width THEN img.width - req.x ELSE req.width
             h  == IF sy.val > img.height THEN img.height - req.y ELSE req.height
         IN  [ok |-> sx.ok /\ sy.ok,
              region |-> [x |-> req.x, y |-> req.y, width |-> w, height |-> h]]

\* ImageView::set_region in build b: ok is FALSE when x + width or
\* y + height panics; region is what is stored otherwise.
set_region(b, img, req) ==
    IF req.x > img.width \/ req.y > img.height
    THEN [ok |-> TRUE, region |-> ZeroRegion]
    ELSE LET sx == checked_add(b, req.x, req.width)
             sy == checked_add(b, req.y, req.height)
             w  == IF sx.val > img.width THEN img.width - req.x ELSE req.width
             h  == IF sy.val > img.height THEN img.height - req.y ELSE req.height
         IN  [ok |-> sx.ok /\ sy.ok, region |-> MkRegion(req.x, req.y, w, h)]

\* ImageView::pixel without the test against the region's size.
view_pixel_unchecked(b, img, reg, x, y) ==
    LET ax == checked_add(b, x, reg.x)
        ay == checked_add(b, y, reg.y)
        p  == image_pixel(img, ax.val, ay.val)
    IN  [ok |-> ax.ok /\ ay.ok, some |-> p.some, idx |-> p.idx]

\* ImageView::pixel: region-relative lookup.  ok is FALSE when
\* x + region.x or y + region.y panics.
view_pixel(b, img, reg, x, y) ==
    IF x >= reg.width \/ y >= reg.height
    THEN [ok |-> TRUE, some |-> FALSE, idx |-> -1]
    ELSE LET ax == checked_add(b, x, reg.x)
             ay == checked_add(b, y, reg.y)
             p  == image_pixel(img, ax.val, ay.val)
         IN  [ok |-> ax.ok /\ ay.ok, some |-> p.some, idx |-> p.idx]

\* Values a caller passes for a usize argument: everything up to the
\* largest image dimension, and the largest machine word.
UsizeSamples == (0 .. MaxDim) \cup {USIZE_MAX}

Requests == { MkRegion(x, y, w, h) : x \in UsizeSamples, y \in UsizeSamples,
                                    w \in UsizeSamples, h \in UsizeSamples }

BgSamples == {DefaultBg, MkBg(40, 80, 120)}

Images == { PaintedImage(w, h, FALSE) : w \in 0 .. MaxDim, h \in 0 .. MaxDim }

NoAccess == [called |-> FALSE, some |-> FALSE, idx |-> -1]
NoCursor == [live |-> FALSE, region |-> ZeroRegion, real_width |-> 0, x |-> 0, y |-> 0]
NoRun == [set |-> FALSE, seq |-> << >>]
NoArea == [x |-> 0, y |-> 0, width |-> 0, height |-> 0]
NoChan == [val |-> 0, bg |-> 0, alpha |-> 0]
NoColour == Reset
NoGeom == [path |-> "none"]

IterIdle ==
    /\ cur = NoCursor /\ calls = 0 /\ nextRes = "fresh"
    /\ yielded = << >> /\ firstRun = NoRun /\ got = NoAccess
RenderIdle == area = NoArea /\ buf = << >> /\ written = {} /\ geom = NoGeom
AlphaIdle == requested = ZeroRegion /\ chan = NoChan /\ blended = << >> /\ colour = NoColour

\* Image::view / ImageView::new on some image.
Init ==
    /\ build \in Builds
    /\ image \in Images
    /\ fit = new(image).fit
    /\ region = new(image).region
    /\ bg = new(image).bg
    /\ panicked = "none"
    /\ phase = "config"
    /\ IterIdle /\ RenderIdle /\ AlphaIdle

\* The clamp invariant of a region against an image, in unbounded integers.
InImage(img, reg) ==
    /\ reg.x + reg.width <= img.width
    /\ reg.y + reg.height <= img.height

\* view.set_region(req), and view = view.with_region(req), which is
\* set_region on the moved copy.
SetRegion ==
    /\ panicked = "none"
    /\ \E req \in Requests :
         LET r == set_region(build, image, req)
         IN  IF r.ok
             THEN region' = r.region /\ panicked' = "none"
             ELSE region' = region /\ panicked' = "overflow"
    /\ UNCHANGED <<build, image, fit, bg, phase, got>>
    /\ UNCHANGED <<iterVars, renderVars, alphaVars>>

\* view.set_fit(f), and with_fit
SetFit ==
    /\ panicked = "none"
    /\ \E f \in Fits : fit' = f
    /\ UNCHANGED <<build, image, region, bg, panicked, phase, got>>
    /\ UNCHANGED <<iterVars, renderVars, alphaVars>>

\* view.set_bg_color(c), and with_bg_color
SetBgColor ==
    /\ panicked = "none"
    /\ \E c \in BgSamples : bg' = c
    /\ UNCHANGED <<build, image, fit, region, panicked, phase, got>>
    /\ UNCHANGED <<iterVars, renderVars, alphaVars>>

Next == SetRegion \/ SetFit \/ SetBgColor

Spec == Init /\ [][Next]_vars

\* ------------------------------------------------------------- ViewPixels

\* pixels() with the cursor started at the image's origin, not the region's.
pixels_from_image_origin(img, reg) ==
    [live |-> TRUE, region |-> reg, real_width |-> img.width, x |-> 0, y |-> 0]

\* ImageView::pixels: a cursor at the region's origin.
pixels(img, reg) ==
    [live |-> TRUE, region |-> reg, real_width |-> img.width, x |-> reg.x, y |-> reg.y]

\* The exhausted sentinel: x = y = usize::MAX.
Exhausted(c) == c.x = USIZE_MAX

\* ViewPixels::next in build b over a buffer of len pixels.
\* end is "none" (returned), "overflow" (an addition or the multiplication
\* panicked) or "index" (the slice index was out of bounds); some/idx is
\* the item returned; cur is the cursor afterwards.
next(b, len, c) ==
    IF c.x = USIZE_MAX
    THEN [end |-> "none", some |-> FALSE, idx |-> -1, cur |-> c]
    ELSE LET x   == c.x
             y   == c.y
             x1  == checked_add(b, c.x, 1)
             xe  == checked_add(b, c.region.x, c.region.width)
             wrap == x1.val >= xe.val
             y1  == checked_add(b, c.y, 1)
             ye  == checked_add(b, c.region.y, c.region.height)
             done == wrap /\ y1.val >= ye.val
             nx  == IF done THEN USIZE_MAX ELSE IF wrap THEN c.region.x ELSE x1.val
             ny  == IF done THEN USIZE_MAX ELSE IF wrap THEN y1.val ELSE c.y
             m   == checked_mul(b, y, c.real_width)
             i   == checked_add(b, m.val, x)
             arith == x1.ok /\ xe.ok /\ (wrap => (y1.ok /\ ye.ok)) /\ m.ok /\ i.ok
         IN  [end  |-> IF ~arith THEN "overflow"
                       ELSE IF i.val >= len THEN "index" ELSE "none",
              some |-> TRUE,
              idx  |-> i.val,
              cur  |-> [c EXCEPT !.x = nx, !.y = ny]]

\* A view as the configuration operations leave it: new, then possibly a
\* set_region that returned.
ViewRegions(b, img) ==
    {new(img).region} \cup
    { set_region(b, img, req).region : req \in {q \in Requests : set_region(b, img, q).ok} }

InitIter ==
    /\ build \in Builds
    /\ image \in Images
    /\ fit = "Zoom"
    /\ region \in ViewRegions(build, image)
    /\ bg = DefaultBg
    /\ panicked = "none"
    /\ phase = "iter"
    /\ IterIdle /\ RenderIdle /\ AlphaIdle

\* Calls of next() followed on one cursor, past its exhaustion.
MaxLateCalls == 2

\* let it = view.pixels(): a fresh cursor.  firstRun remembers what the
\* cursor it replaces had yielded, if that one ran to its end.
Pixels ==
    /\ panicked = "none"
    /\ cur' = pixels(image, region)
    /\ calls' = 0
    /\ nextRes' = "fresh"
    /\ yielded' = << >>
    /\ firstRun' = IF cur.live /\ Exhausted(cur) /\ nextRes = "none"
                   THEN [set |-> TRUE, seq |-> yielded]
                   ELSE firstRun
    /\ UNCHANGED <<build, image, panicked, phase, got>>
    /\ UNCHANGED <<viewVars, renderVars, alphaVars>>

\* it.next()
IterNext ==
    /\ panicked = "none"
    /\ cur.live
    /\ calls < Len(yielded) + MaxLateCalls
    /\ LET r == next(build, image.width * image.height, cur)
       IN  /\ panicked' = r.end
           /\ cur' = r.cur
           /\ calls' = calls + 1
           /\ nextRes' = IF r.end # "none" THEN "panic"
                         ELSE IF r.some THEN "some" ELSE "none"
           /\ yielded' = IF r.end = "none" /\ r.some THEN Append(yielded, r.idx)
                         ELSE yielded
    /\ UNCHANGED <<build, image, firstRun, phase, got>>
    /\ UNCHANGED <<viewVars, renderVars, alphaVars>>

\* view.pixel(x, y)
PixelAt ==
    /\ panicked = "none"
    /\ \E x \in UsizeSamples, y \in UsizeSamples :
         LET p == view_pixel(build, image, region, x, y)
         IN  /\ got' = [called |-> TRUE, some |-> p.ok /\ p.some,
                        idx |-> IF p.ok THEN p.idx ELSE -1]
             /\ panicked' = IF p.ok THEN "none" ELSE "overflow"
    /\ UNCHANGED <<build, image, phase>>
    /\ UNCHANGED <<viewVars, iterVars, renderVars, alphaVars>>

NextIter == Pixels \/ IterNext \/ PixelAt

SpecIter == InitIter /\ [][NextIter]_vars

\* ----------------------------------------- set_region on a recorded request

\* A fresh view and the region about to be requested of it.
InitSetRegion ==
    /\ build \in Builds
    /\ image \in Images
    /\ fit = new(image).fit
    /\ region = new(image).region
    /\ bg = new(image).bg
    /\ panicked = "none"
    /\ phase = "request"
    /\ requested \in Requests
    /\ chan = NoChan /\ blended = << >> /\ colour = NoColour
    /\ IterIdle /\ RenderIdle

\* view.set_region(requested)
SetRequested ==
    /\ phase = "request"
    /\ LET r == set_region(build, image, requested)
       IN  IF r.ok
           THEN region' = r.region /\ panicked' = "none"
           ELSE region' = region /\ panicked' = "overflow"
    /\ phase' = "clamped"
    /\ UNCHANGED <<build, image, fit, bg, got>>
    /\ UNCHANGED <<iterVars, renderVars, alphaVars>>

NextSetRegion == SetRequested

SpecSetRegion == InitSetRegion /\ [][NextSetRegion]_vars

\* ----------------------------------------------------------------- render

\* The Color a call of Pixel::on returned.
Rgb(c) == [kind |-> "Rgb", r |-> c.r, g |-> c.g, b |-> c.b]

\* PIXEL_CHAR, the upper half block.
PIXEL_CHAR == "U+2580"

\* cell.set_char(' ').set_bg(Color::Reset): the foreground stays.
BlankCell(old) == [ch |-> " ", fg |-> old.fg, bg |-> Reset]

\* cell.set_char(PIXEL_CHAR).set_fg(fg).set_bg(bg)
PixelCell(fgc, bgc) == [ch |-> PIXEL_CHAR, fg |-> fgc, bg |-> bgc]

\* self.pixel(x, y) in render: the Pixel, if any.
render_pixel(b, img, reg, x, y) ==
    LET p == view_pixel(b, img, reg, x, y)
    IN  [ok |-> p.ok, some |-> p.some,
         pix |-> IF p.some /\ p.idx < img.width * img.height
                 THEN img.pixels[p.idx] ELSE DefaultPixel]

\* The exact-fit path with both pixel rows read from the upper row.
exact_cell_one_row(b, img, reg, bgc, x, y) ==
    LET p1 == render_pixel(b, img, reg, x, y * 2)
        c1 == on(p1.pix, bgc)
    IN  [ok |-> p1.ok /\ c1.ok, cell |-> PixelCell(Rgb(c1), Rgb(c1))]

\* The exact-fit path's cell (x, y): pixel(x, 2y) over pixel(x, 2y + 1),
\* a missing pixel replaced by Pixel::default().
exact_cell(b, img, reg, bgc, x, y) ==
    LET pix_y1 == y * 2
        pix_y2 == pix_y1 + 1
        p1 == render_pixel(b, img, reg, x, pix_y1)
        p2 == render_pixel(b, img, reg, x, pix_y2)
        c1 == on(p1.pix, bgc)
        c2 == on(p2.pix, bgc)
    IN  [ok |-> p1.ok /\ p2.ok /\ c1.ok /\ c2.ok,
         cell |-> PixelCell(Rgb(c1), Rgb(c2))]

\* x * 2.0 on an f32 (exact).
F32Double(a) == IF a.k = "fin" /\ a.m > 0 THEN [a EXCEPT !.e = a.e + 1] ELSE a

\* The scaled path with the Fit::Zoom centring offsets left at 0.
scaled_geometry_uncentred(b, fitv, reg, ar) ==
    LET zx == F32Div(F32FromInt(ar.width), F32FromInt(reg.width))
        zy == F32Div(F32Double(F32FromInt(ar.height)), F32FromInt(reg.height))
        z  == IF F32Lt(zx, zy) THEN zx ELSE zy
    IN  [path |-> "scaled", ok |-> TRUE,
         zoom_x |-> IF fitv = "Zoom" THEN z ELSE zx,
         zoom_y |-> IF fitv = "Zoom" THEN z ELSE zy,
         x_pos |-> 0, y_pos |-> 0]

\* The scaled path's zoom ratios and centring offsets.  ok is FALSE when
\* a subtraction panics.
scaled_geometry(b, fitv, reg, ar) ==
    LET zx == F32Div(F32FromInt(ar.width), F32FromInt(reg.width))
        zy == F32Div(F32Double(F32FromInt(ar.height)), F32FromInt(reg.height))
        dy == checked_sub(b, ar.height * 2, F32ToUsize(F32MulInt(reg.height, zx)))
        dx == checked_sub(b, ar.width, F32ToUsize(F32MulInt(reg.width, zy)))
    IN  IF fitv = "Zoom"
        THEN IF F32Lt(zx, zy)
             THEN [path |-> "scaled", ok |-> dy.ok, zoom_x |-> zx, zoom_y |-> zx,
                   x_pos |-> 0, y_pos |-> (dy.val \div 4) % U16Mod]
             ELSE [path |-> "scaled", ok |-> dx.ok, zoom_x |-> zy, zoom_y |-> zy,
                   x_pos |-> (dx.val \div 2) % U16Mod, y_pos |-> 0]
        ELSE [path |-> "scaled", ok |-> TRUE, zoom_x |-> zx, zoom_y |-> zy,
              x_pos |-> 0, y_pos |-> 0]

\* The scaled path's cell (x, y) under geometry g; old is the cell before.
scaled_cell(b, img, reg, bgc, g, x, y, old) ==
    IF x < g.x_pos \/ y < g.y_pos
    THEN [ok |-> TRUE, cell |-> BlankCell(old)]
    ELSE LET pix_x  == F32ToUsize(F32Div(F32FromInt(x - g.x_pos), g.zoom_x))
             y1     == (y - g.y_pos) * 2
             y2     == y1 + 1
             pix_y1 == F32ToUsize(F32Div(F32FromInt(y1), g.zoom_y))
             pix_y2 == F32ToUsize(F32Div(F32FromInt(y2), g.zoom_y))
             p1     == render_pixel(b, img, reg, pix_x, pix_y1)
             p2     == render_pixel(b, img, reg, pix_x, pix_y2)
             c1     == on(p1.pix, bgc)
             c2     == on(p2.pix, bgc)
         IN  IF ~p1.some /\ ~p2.some
             THEN [ok |-> p1.ok /\ p2.ok, cell |-> BlankCell(old)]
             ELSE [ok |-> p1.ok /\ p2.ok /\ (p1.some => c1.ok) /\ (p2.some => c2.ok),
                   cell |-> PixelCell(IF p1.some THEN Rgb(c1) ELSE Reset,
                                      IF p2.some THEN Rgb(c2) ELSE Reset)]

\* The cells render visits: (x, y) for x in 0..area.width, y in
\* 0..area.height, each passed to buf.get_mut(x, y).
Visited(ar) == (0 .. (ar.width - 1)) \X (0 .. (ar.height - 1))

\* <ImageView as Widget>::render on the buffer old.  ok is FALSE when it
\* panics: on arithmetic, or on a get_mut outside the buffer.
render(b, img, fitv, reg, bgc, ar, old) ==
    LET exact == ar.width = reg.width /\ ar.height * 2 = reg.height
        g     == IF exact THEN [path |-> "exact", ok |-> TRUE]
                 ELSE scaled_geometry(b, fitv, reg, ar)
        upd   == [c \in Visited(ar) |->
                    IF exact THEN exact_cell(b, img, reg, bgc, c[1], c[2])
                    ELSE scaled_cell(b, img, reg, bgc, g, c[1], c[2],
                                     IF c \in DOMAIN old THEN old[c]
                                     ELSE [ch |-> " ", fg |-> Reset, bg |-> Reset])]
    IN  [ok   |-> /\ g.ok
                  /\ Visited(ar) \subseteq DOMAIN old
                  /\ \A c \in Visited(ar) : upd[c].ok,
         geom |-> g,
         buf  |-> [c \in DOMAIN old |-> IF c \in Visited(ar) THEN upd[c].cell ELSE old[c]]]

\* ------------------------------------------------- compositing on its own

U8 == 0 .. U8_MAX

\* Alpha values the Pixel::on calls are drawn from.
AlphaSamples == {0, 1, 127, 128, 254, U8_MAX}

\* The pixel and background colour built from two channel bytes.
PixelOf(c, a) == MkPixel(c.val, c.bg, U8_MAX - c.val, a)
BgOf(c) == MkBg(c.bg, U8_MAX - c.bg, c.val)

\* A channel value and a background channel value, any two bytes.
InitAlpha ==
    /\ build = "release"
    /\ image = PaintedImage(0, 0, FALSE)
    /\ fit = "Zoom" /\ region = ZeroRegion /\ bg = DefaultBg
    /\ panicked = "none"
    /\ phase = "input"
    /\ requested = ZeroRegion
    /\ chan \in [val : U8, bg : U8, alpha : {0}]
    /\ blended = << >>
    /\ colour = NoColour
    /\ IterIdle /\ RenderIdle

\* apply_alpha(val, bg, alpha) for every alpha.
Blend ==
    /\ phase = "input"
    /\ blended' = [a \in U8 |-> apply_alpha(chan.val, chan.bg, a)]
    /\ phase' = "blended"
    /\ UNCHANGED <<build, image, panicked, got, requested, chan, colour>>
    /\ UNCHANGED <<viewVars, iterVars, renderVars>>

\* pixel.on(bg)
Composite ==
    /\ phase = "blended"
    /\ \E a \in AlphaSamples :
         /\ chan' = [chan EXCEPT !.alpha = a]
         /\ colour' = on(PixelOf(chan, a), BgOf(chan))
    /\ phase' = "composited"
    /\ UNCHANGED <<build, image, panicked, got, requested, blended>>
    /\ UNCHANGED <<viewVars, iterVars, renderVars>>

NextAlpha == Blend \/ Composite

SpecAlpha == InitAlpha /\ [][NextAlpha]_vars

\* ------------------------------------------------------ render on its own

\* Largest image width/height rendered.
MaxRenderDim == 4
\* Largest target area, in cells.
MaxAreaWidth == 5
MaxAreaHeight == 2
\* Largest column/row of the target area's origin.
MaxOrigin == 1

\* The frame buffer: its Rect starts at (0, 0), as a Frame's does, and
\* holds every target area.
BufCells == (0 .. (MaxOrigin + MaxAreaWidth - 1)) \X (0 .. (MaxOrigin + MaxAreaHeight - 1))

\* A cell left by an earlier widget.
StaleCell == [ch |-> "#", fg |-> [kind |-> "Indexed"], bg |-> [kind |-> "Indexed"]]

Areas == { [x |-> o, y |-> o, width |-> w, height |-> h] :
             o \in 0 .. MaxOrigin, w \in 0 .. MaxAreaWidth, h \in 0 .. MaxAreaHeight }

RenderImages == { PaintedImage(w, h, TRUE) : w \in 0 .. MaxRenderDim, h \in 0 .. MaxRenderDim }

\* The background colour the rendered views are given.
RenderBg == MkBg(40, 80, 120)

\* Regions requested of the rendered views: at or next to the image's
\* origin, of every size up to the largest image, or of the largest size.
RenderRequests ==
    { MkRegion(o, o, w, h) : o \in 0 .. 1,
                             w \in (0 .. MaxRenderDim) \cup {USIZE_MAX},
                             h \in (0 .. MaxRenderDim) \cup {USIZE_MAX} }

\* The regions a view of img can hold in build b.
RenderRegions(b, img) ==
    {new(img).region} \cup
    { set_region(b, img, q).region : q \in {r \in RenderRequests : set_region(b, img, r).ok} }

\* A configured view, a target area and a buffer with earlier content.
\* The two builds differ only where an operation overflows, which the
\* debug build reports: the release build is followed from the regions
\* that only it can store.
InitRender ==
    /\ build \in Builds
    /\ image \in RenderImages
    /\ bg = RenderBg
    /\ region \in IF build = "debug" THEN RenderRegions("debug", image)
                  ELSE RenderRegions("release", image) \ RenderRegions("debug", image)
    /\ fit \in Fits
    /\ area \in Areas
    /\ buf = [c \in BufCells |-> StaleCell]
    /\ written = {}
    /\ geom = NoGeom
    /\ panicked = "none"
    /\ got = NoAccess
    /\ phase = "ready"
    /\ cur = NoCursor /\ calls = 0 /\ nextRes = "fresh"
    /\ yielded = << >> /\ firstRun = NoRun
    /\ AlphaIdle

\* view.render(area, &mut buf)
Render ==
    /\ phase = "ready"
    /\ LET r == render(build, image, fit, region, bg, area, buf)
       IN  /\ panicked' = IF r.ok THEN "none" ELSE "overflow"
           /\ buf' = r.buf
           /\ geom' = r.geom
    /\ written' = Visited(area)
    /\ phase' = "rendered"
    /\ UNCHANGED <<build, image, area, got>>
    /\ UNCHANGED <<viewVars, iterVars, alphaVars>>

NextRender == Render

SpecRender == InitRender /\ [][NextRender]_vars

\* ------------------------------------------------- render of wide images

\* Largest image rendered whole, and largest target area it is rendered
\* into, in cells.
MaxWideWidth == 14
MaxWideHeight == 3
MaxWideAreaWidth == 5
MaxWideAreaHeight == 3

WideBufCells == (0 .. (MaxWideAreaWidth - 1)) \X (0 .. (MaxWideAreaHeight - 1))

WideAreas == { [x |-> 0, y |-> 0, width |-> w, height |-> h] :
                 w \in 1 .. MaxWideAreaWidth, h \in 1 .. MaxWideAreaHeight }

\* Images of either orientation: wide and low, or narrow and tall.
WideImages ==
    { PaintedImage(w, h, TRUE) : w \in 1 .. MaxWideWidth, h \in 1 .. MaxWideHeight }
    \cup { PaintedImage(w, h, TRUE) : w \in 1 .. MaxWideHeight, h \in 1 .. MaxWideWidth }

\* image.view() with a fit, a target area at the buffer's origin and a
\* buffer with earlier content.
InitWide ==
    /\ build \in Builds
    /\ image \in WideImages
    /\ bg = RenderBg
    /\ region = new(image).region
    /\ fit \in Fits
    /\ area \in WideAreas
    /\ buf = [c \in WideBufCells |-> StaleCell]
    /\ written = {}
    /\ geom = NoGeom
    /\ panicked = "none"
    /\ got = NoAccess
    /\ phase = "ready"
    /\ cur = NoCursor /\ calls = 0 /\ nextRes = "fresh"
    /\ yielded = << >> /\ firstRun = NoRun
    /\ AlphaIdle

SpecWide == InitWide /\ [][NextRender]_vars

\* ================================================================ claims

\* ---------------------------------------------------------------- C1
\* C1: after new and any sequence of set_region / with_region / set_fit /
\* set_bg_color calls, with any usize values requested, every call has
\* completed without error and the stored region lies inside the image
\* (x + width <= image.width and y + height <= image.height, in unbounded
\* integers) or is the zero region.
C1_RegionAlwaysClamped ==
    /\ panicked = "none"
    /\ (region = ZeroRegion \/ InImage(image, region))

\* ---------------------------------------------------------------- C2
\* C2: every pixel access made through a view is in bounds.  Stated for
\* the views whose region lies inside the image: no next() call of a
\* cursor over such a region panics on its slice index, every index it
\* yields is below width*height, and pixel(x, y) returns an index below
\* width*height.
C2_AccessesInBounds ==
    InImage(image, region) =>
        /\ panicked # "index"
        /\ \A k \in 1 .. Len(yielded) : yielded[k] < image.width * image.height
        /\ (got.some => got.idx < image.width * image.height)

\* ---------------------------------------------------------------- C3
\* The buffer indices of a region in row-major order: item k (from 0) is
\* the pixel at (x + k mod w, y + k div w).
RowMajor(img, reg) ==
    [k \in 1 .. (reg.width * reg.height) |->
        (reg.y + ((k - 1) \div reg.width)) * img.width
            + reg.x + ((k - 1) % reg.width)]

Min(a, b) == IF a < b THEN a ELSE b

\* C3: a cursor over a region inside the image with width w >= 1 and
\* height h >= 1 yields, after n calls of next(), the first min(n, w*h)
\* buffer indices of the region in row-major order; the calls up to w*h
\* return an item and every later call reports exhaustion; and a second
\* cursor from pixels() on the same view repeats the sequence of the
\* first.
C3_RowMajorExactlyOnce ==
    (cur.live /\ InImage(image, cur.region)
        /\ cur.region.width >= 1 /\ cur.region.height >= 1) =>
        LET n == cur.region.width * cur.region.height
            want == RowMajor(image, cur.region)
        IN  /\ panicked = "none"
            /\ yielded = SubSeq(want, 1, Min(calls, n))
            /\ (calls >= 1 => nextRes = IF calls <= n THEN "some" ELSE "none")
            /\ (calls > n => Exhausted(cur))
            /\ (firstRun.set =>
                  /\ yielded = SubSeq(firstRun.seq, 1, Len(yielded))
                  /\ (nextRes = "none" => yielded = firstRun.seq))

\* A second cursor over a 2x2 region at a non-zero origin of a wider
\* image has run to its end, one call past it.
C3_Witness ==
    /\ cur.live /\ firstRun.set
    /\ cur.region = MkRegion(1, 1, 2, 2) /\ image.width = 3
    /\ calls = 5 /\ nextRes = "none"
    /\ yielded = <<4, 5, 7, 8>>

\* ---------------------------------------------------------------- C4
\* C4: a cursor over a region of width 0 or height 0 yields no items: its
\* first next() call already reports exhaustion.  Stated for the regions
\* inside the image.
C4_EmptyRegionYieldsNothing ==
    (cur.live /\ InImage(image, cur.region) /\ calls >= 1
        /\ (cur.region.width = 0 \/ cur.region.height = 0)) =>
        (nextRes = "none" /\ yielded = << >>)

\* ---------------------------------------------------------------- C5
OnBoundary(img, r) == r.x = img.width \/ r.y = img.height

\* C5 as stated: a request whose origin is exactly on the image boundary
\* (x = image.width or y = image.height) is stored as the zero region.
C5_BoundaryCollapses ==
    (phase = "clamped" /\ panicked = "none" /\ OnBoundary(image, requested)) =>
        region = ZeroRegion

\* C5 amended: a request whose origin is on the image boundary and not
\* beyond it on the other axis keeps its origin; the stored width is 0
\* when x = image.width and the height is 0 when y = image.height (unless
\* the sum with the requested size overflows the machine word).  Only an
\* origin beyond the image (x > image.width or y > image.height) is stored
\* as the zero region.
C5_BoundaryKeepsOrigin ==
    (phase = "clamped" /\ panicked = "none" /\ OnBoundary(image, requested)) =>
        IF requested.x > image.width \/ requested.y > image.height
        THEN region = ZeroRegion
        ELSE /\ region.x = requested.x
             /\ region.y = requested.y
             /\ (requested.x = image.width
                   /\ requested.x + requested.width <= USIZE_MAX
                     => region.width = 0)
             /\ (requested.y = image.height
                   /\ requested.y + requested.height <= USIZE_MAX
                     => region.height = 0)

\* A request at x = image.width is stored as a zero-width region at that
\* origin, with its height kept.
C5_Witness ==
    /\ phase = "clamped" /\ panicked = "none"
    /\ image.width = 2 /\ image.height = 3
    /\ requested = MkRegion(2, 1, 1, 2)
    /\ region = MkRegion(2, 1, 0, 2)

\* ---------------------------------------------------------------- C6
Degenerate(reg, ar) ==
    reg.width = 0 \/ reg.height = 0 \/ ar.width = 0 \/ ar.height = 0

IsBlank(cell) == cell.ch = " " /\ cell.bg = Reset

\* C6: rendering a view whose region has width 0 or height 0, into any
\* target area, or any view into an area of width 0 or height 0, under
\* either fit, completes (no arithmetic panics: no division by zero, no
\* unsigned underflow in the zoom ratios and offsets) and every cell it
\* writes is blank: a space on a Reset background.
C6_DegenerateRendersBlank ==
    (phase = "rendered" /\ Degenerate(region, area)) =>
        /\ panicked = "none"
        /\ \A c \in written : IsBlank(buf[c])

\* A zero-width region rendered with Fit::Zoom into a 3x1 area: the
\* ratio aw/0 is infinite, the offset is 1, and the three cells are blank.
C6_Witness ==
    /\ phase = "rendered" /\ panicked = "none"
    /\ region = MkRegion(0, 0, 0, 2) /\ fit = "Zoom"
    /\ area.width = 3 /\ area.height = 1
    /\ geom.path = "scaled" /\ geom.x_pos = 1
    /\ written = {<<0, 0>>, <<1, 0>>, <<2, 0>>}
    /\ \A c \in written : IsBlank(buf[c])

\* ---------------------------------------------------------------- C7
F32One == F32FromInt(1)
F32Half == F32Div(F32FromInt(1), F32FromInt(2))

\* The region {0,0,4,4} of a 4x4 image rendered with Fit::Zoom into an
\* area 4 cells wide and 1 cell high.
C7_Case ==
    /\ phase = "rendered"
    /\ image.width = 4 /\ image.height = 4
    /\ region = MkRegion(0, 0, 4, 4)
    /\ area.width = 4 /\ area.height = 1
    /\ fit = "Zoom"

\* The composited colour of the image pixel at column x, row y.
Composited(x, y) == Rgb(on(image.pixels[y * image.width + x], bg))

\* C7 as stated: that render uses zoom_x = zoom_y = 1.0 and x_pos = y_pos
\* = 0 and writes a 1:1 copy, cell (x, 0) being pixel (x, 0) over pixel
\* (x, 1), with no blank cell.
C7_OneToOneCopy ==
    C7_Case =>
        /\ geom.path = "scaled"
        /\ geom.zoom_x = F32One /\ geom.zoom_y = F32One
        /\ geom.x_pos = 0 /\ geom.y_pos = 0
        /\ \A x \in 0 .. 3 :
             buf[<<x, 0>>] = PixelCell(Composited(x, 0), Composited(x, 1))

\* C7 amended: that render computes zoom_x = 1.0 and zoom_y = 0.5, uses
\* the smaller, 0.5, on both axes with x_pos = 1 and y_pos = 0, and writes
\* a half-scale copy centred in the area: cells (0,0) and (3,0) are blank,
\* and cell (x, 0) for x in 1..2 is a half block of pixel (2(x-1), 0) over
\* pixel (2(x-1), 2), each composited on the background colour.
C7_HalfScaleCentred ==
    C7_Case =>
        /\ panicked = "none"
        /\ geom.path = "scaled"
        /\ geom.zoom_x = F32Half /\ geom.zoom_y = F32Half
        /\ geom.x_pos = 1 /\ geom.y_pos = 0
        /\ IsBlank(buf[<<0, 0>>]) /\ IsBlank(buf[<<3, 0>>])
        /\ \A x \in 1 .. 2 :
             buf[<<x, 0>>] =
                 PixelCell(Composited(2 * (x - 1), 0), Composited(2 * (x - 1), 2))

\* That render has happened, and filled a cell.
C7_Witness ==
    /\ C7_Case /\ panicked = "none"
    /\ area.x = 0
    /\ buf[<<1, 0>>].ch = PIXEL_CHAR
    /\ buf[<<2, 0>>].ch = PIXEL_CHAR

\* ---------------------------------------------------------------- C8
\* C8: for all bytes v and bg, apply_alpha(v, bg, 255) = v and
\* apply_alpha(v, bg, 0) = bg, and the result is monotonic in alpha over
\* 0..255: non-decreasing when v >= bg, non-increasing when v <= bg.
C8_EndpointsAndMonotonic ==
    phase = "blended" =>
        /\ blended[U8_MAX].val = chan.val
        /\ blended[0].val = chan.bg
        /\ \A a \in 0 .. (U8_MAX - 1) :
             /\ (chan.val >= chan.bg => blended[a].val <= blended[a + 1].val)
             /\ (chan.val <= chan.bg => blended[a].val >= blended[a + 1].val)

\* Blends of 200 over 10 that start at the background, end at the value
\* and rise strictly in between.
C8_Witness ==
    /\ phase = "blended"
    /\ chan.val = 200 /\ chan.bg = 10
    /\ blended[0].val = 10 /\ blended[U8_MAX].val = 200
    /\ blended[127].val < blended[128].val

\* ---------------------------------------------------------------- C9
\* floor((value*alpha + bg*(255 - alpha)) / 255) in unbounded integers.
Blend255(v, b, a) == (v * a + b * (U8_MAX - a)) \div U8_MAX

\* C9: for all bytes value, bg and alpha, apply_alpha's 16-bit
\* intermediates never overflow, and its result is
\* floor((value*alpha + bg*(255-alpha)) / 255) and fits in 8 bits;
\* Pixel::on applies this to the R, G and B channels, each with its own
\* background channel and all with the pixel's alpha, and returns an
\* opaque RGB colour.
C9_ExactInU16 ==
    /\ phase = "blended" =>
         \A a \in U8 :
            /\ blended[a].ok
            /\ blended[a].val = Blend255(chan.val, chan.bg, a)
            /\ blended[a].val \in U8
    /\ phase = "composited" =>
         LET pix == PixelOf(chan, chan.alpha)
             bgc == BgOf(chan)
         IN  /\ colour.kind = "Rgb" /\ colour.ok
             /\ colour.r = Blend255(pix.r, bgc.r, pix.a)
             /\ colour.g = Blend255(pix.g, bgc.g, pix.a)
             /\ colour.b = Blend255(pix.b, bgc.b, pix.a)

\* The largest intermediate, 255*255 = 65025, has been computed, and a
\* half-transparent pixel (255, 255, 0) has been composited on the
\* background (255, 0, 255).
C9_Witness ==
    /\ phase = "composited"
    /\ chan = [val |-> U8_MAX, bg |-> U8_MAX, alpha |-> 128]
    /\ blended[U8_MAX] = [ok |-> TRUE, val |-> U8_MAX]
    /\ colour = [kind |-> "Rgb", ok |-> TRUE, r |-> U8_MAX, g |-> 128, b |-> 127]

\* ---------------------------------------------------------------- C10
\* zoom_x = zoom_y = 1.0 and x_pos = y_pos = 0.
UnitGeometry ==
    [path |-> "scaled", ok |-> TRUE, zoom_x |-> F32One, zoom_y |-> F32One,
     x_pos |-> 0, y_pos |-> 0]

\* C10: for a view with a non-empty region and an area with area.width =
\* region.width and area.height*2 = region.height, under either fit,
\* render takes the exact-fit path, and every cell (x, y) it writes is the
\* half block of pixel(x, 2y) over pixel(x, 2y+1), both composited on the
\* background colour, which is the cell the scaled path computes with
\* zoom_x = zoom_y = 1.0 and x_pos = y_pos = 0.
C10_ExactFitAgreesWithUnitScale ==
    (phase = "rendered" /\ region.width >= 1 /\ region.height >= 1
        /\ area.width = region.width /\ area.height * 2 = region.height) =>
        /\ panicked = "none"
        /\ geom.path = "exact"
        /\ \A c \in written :
             /\ buf[c] = PixelCell(Composited(region.x + c[1], region.y + 2 * c[2]),
                                   Composited(region.x + c[1], region.y + 2 * c[2] + 1))
             /\ buf[c] = scaled_cell(build, image, region, bg, UnitGeometry,
                                     c[1], c[2], StaleCell).cell

\* A 2x2 region away from the image's origin rendered 1:1 into a 2x1
\* area with Fit::Stretch.
C10_Witness ==
    /\ phase = "rendered" /\ panicked = "none"
    /\ fit = "Stretch"
    /\ image.width = 4
    /\ region = MkRegion(1, 1, 2, 2)
    /\ area.width = 2 /\ area.height = 1
    /\ geom.path = "exact"
    /\ buf[<<1, 0>>] = PixelCell(Composited(2, 1), Composited(2, 2))

\* ---------------------------------------------------------------- C11
\* C11: under Fit::Stretch, for every region with width w >= 1 and height
\* h >= 1 and every target area with aw >= 1 and ah >= 1, no cell is
\* blank, and cell (x, y) is a half block of the composited source pixel
\* in column floor(x*w/aw), row floor(2y*h/(2*ah)), over the composited
\* source pixel in that column, row floor((2y+1)*h/(2*ah)).
C11_StretchSamplesByFloor ==
    (phase = "rendered" /\ fit = "Stretch"
        /\ region.width >= 1 /\ region.height >= 1
        /\ area.width >= 1 /\ area.height >= 1) =>
        /\ panicked = "none"
        /\ \A c \in written :
             LET col  == (c[1] * region.width) \div area.width
                 row1 == (2 * c[2] * region.height) \div (2 * area.height)
                 row2 == ((2 * c[2] + 1) * region.height) \div (2 * area.height)
             IN  buf[c] = PixelCell(Composited(region.x + col, region.y + row1),
                                    Composited(region.x + col, region.y + row2))

\* ---------------------------------------------------------------- C12
\* The cells render left non-blank, by their column and row in the area.
NonBlank == { c \in written : ~IsBlank(buf[c]) }

Least(S) == CHOOSE x \in S : \A y \in S : x <= y
Greatest(S) == CHOOSE x \in S : \A y \in S : x >= y

\* |a - b| <= 1
WithinOne(a, b) == a - b <= 1 /\ b - a <= 1

\* C12: under Fit::Zoom on the scaled path, for every region with w >= 1
\* and h >= 1 and every area with aw >= 1 and ah >= 1, render completes
\* and the non-blank cells are one contiguous rectangle centred in the
\* area: the blank columns to its left and right differ in number by at
\* most one, the blank rows above and below it differ by at most one, and
\* only one axis has blank margins, the one whose ratio is not the smaller.
C12_ZoomCentred ==
    (phase = "rendered" /\ fit = "Zoom" /\ geom.path = "scaled"
        /\ region.width >= 1 /\ region.height >= 1
        /\ area.width >= 1 /\ area.height >= 1) =>
        /\ panicked = "none"
        /\ NonBlank # {}
        /\ LET cols   == { c[1] : c \in NonBlank }
               rows   == { c[2] : c \in NonBlank }
               left   == Least(cols)
               right  == area.width - 1 - Greatest(cols)
               top    == Least(rows)
               bottom == area.height - 1 - Greatest(rows)
               zx     == F32Div(F32FromInt(area.width), F32FromInt(region.width))
               zy     == F32Div(F32Double(F32FromInt(area.height)),
                                F32FromInt(region.height))
           IN  /\ NonBlank = (Least(cols) .. Greatest(cols)) \X (Least(rows) .. Greatest(rows))
               /\ WithinOne(left, right)
               /\ WithinOne(top, bottom)
               /\ left + right > 0 => (top + bottom = 0 /\ ~F32Lt(zx, zy))
               /\ top + bottom > 0 => (left + right = 0 /\ F32Lt(zx, zy))

\* ---------------------------------------------------------------- C13
\* The cell c lies in the rectangle ar.
InArea(c, ar) ==
    /\ ar.x <= c[1] /\ c[1] < ar.x + ar.width
    /\ ar.y <= c[2] /\ c[2] < ar.y + ar.height

\* C13: for an area inside the buffer, with any origin, render addresses
\* only cells of the buffer, writes only cells inside the area's
\* rectangle, and leaves every cell outside that rectangle as it was.
C13_WritesOnlyInsideArea ==
    phase = "rendered" =>
        /\ written \subseteq DOMAIN buf
        /\ \A c \in written : InArea(c, area)
        /\ \A c \in DOMAIN buf : ~InArea(c, area) => buf[c] = StaleCell

====
